---- MODULE Spec2Model ----
(***************************************************************************)
(* Model of MyceliumAlgorithms (src/mycelium_algorithm.py) operating on    *)
(* the attributed undirected graph built by MyceliumGraphDatabase          *)
(* (src/mycelium_database.py).                                             *)
(*                                                                         *)
(* Arithmetic.  Node resources are real numbers in the program.  They are  *)
(* kept here as exact rationals over one common denominator: resources[n]  *)
(* is a numerator and the variable den the denominator shared by all       *)
(* nodes, reduced to lowest terms after every operation.  Edge strength is *)
(* kept in tenths (strength 1.0 is 10, the cap 2.0 is 20); capacities are  *)
(* whole numbers.                                                          *)
(***************************************************************************)
EXTENDS Integers, Sequences, FiniteSets, TLC

\* ---- bounds of the model ------------------------------------------------
StarLeaves == 12     \* leaves of the initial star graphs (centre is node 1)
MaxSteps == 2        \* total simulated time steps in one behaviour
MaxDamaged == 2      \* longest damaged_nodes list passed to healing
MaxPermLen == 3      \* step_flows up to this length are tried in every order

\* ---- program constants ----------------------------------------------------
DefaultResources == 0     \* .get('resources', 0)
DefaultCapacity == 1      \* .get('capacity', 1)
DefaultStrength == 10     \* .get('strength', 1.0), in tenths
StrengthCap == 20         \* min(2.0, ...), in tenths
StrengthGain == 1         \* current_strength + 0.1, in tenths
RateDivisor == 10         \* abs(resource1 - resource2) * 0.1
HealCapacity == 5         \* capacity=5 of a healing connection
AltTrials == 3            \* for _ in range(3)
NewNodeResources == 100   \* add_mycelial_node(resources=100)
NewEdgeStrength == 10     \* add_mycelial_connection(strength=1.0), in tenths
NewEdgeCapacity == 10     \* add_mycelial_connection(transport_capacity=10)

\* ---- input value sets -----------------------------------------------------
SmallKeys == {1, 2, 3}     \* node keys of the small initial graphs
BridgeKeys == {1, 2, 3, 4, 5}    \* node keys of the bridge graphs
BridgeEdges == {<<1, 3>>, <<1, 5>>, <<2, 5>>, <<3, 4>>}
DamageKeys == {0, 1, 2}    \* keys passed in damaged_nodes; 0 is never a node
PathKeys == {1, 2, 3, 4}   \* node keys of the graphs pathfinding is run on
ResValues == {0, 30}
CapValues == {1, 5}
StrengthValues == {10, 20}
HealingFactors == {8, 15}
NodeLists == {{}, {1}, {2, 3}}   \* values passed as source_nodes and sink_nodes

VARIABLES
    nodes,            \* graph.nodes(): set of node keys
    resources,        \* node key -> numerator of its 'resources' attribute
    den,              \* common denominator of all resources
    edges,            \* sequence of <<u, v>>, u < v, in insertion order
    capacity,         \* edge -> 'capacity' attribute
    strength,         \* edge -> 'strength' attribute, in tenths
    healing,          \* edges carrying healing_connection=True
    flow,             \* edge -> 'flow' attribute, a rational <<p, q>>
    driver,           \* MyceliumGraphDatabase.driver is set (a mirror is attached)
    last_add,         \* the add_mycelial_* call made last
    pc,               \* "idle", or the function being executed / just returned
    time_left,        \* nutrient_flow_simulation: iterations of range(time_steps) left
    flow_history,     \* nutrient_flow_simulation: flow_history
    source_nodes,     \* nutrient_flow_simulation: source_nodes
    sink_nodes,       \* nutrient_flow_simulation: sink_nodes
    requested,        \* nutrient_flow_simulation: time_steps
    damaged_nodes,    \* self_healing_response: damaged_nodes not yet visited
    healing_factor,   \* self_healing_response: healing_factor, in tenths
    healing_actions,  \* self_healing_response: healing_actions
    stepsDone,        \* time steps simulated so far (bounds the behaviour)
    start,            \* hyphal_growth_pathfinding: start
    target,           \* hyphal_growth_pathfinding: target
    paths,            \* hyphal_growth_pathfinding: paths
    trial,            \* hyphal_growth_pathfinding: iterations of range(3) done
    temp_graph        \* hyphal_growth_pathfinding: edges of the last trial's copy

graphVars == <<nodes, resources, den, edges, capacity, strength, healing, flow>>

dbVars == <<driver, last_add>>

flowArgs == <<source_nodes, sink_nodes, requested>>

flowVars == <<time_left, flow_history, flowArgs>>

healVars == <<damaged_nodes, healing_factor, healing_actions>>

pathVars == <<start, target, paths, trial, temp_graph>>

vars == <<graphVars, pc, flowVars, healVars, stepsDone, pathVars, dbVars>>

\* ---- helpers ----------------------------------------------------------------
Abs(x) == IF x < 0 THEN -x ELSE x

Min(a, b) == IF a <= b THEN a ELSE b

Max(a, b) == IF a >= b THEN a ELSE b

RECURSIVE GCD(_, _)
GCD(a, b) == IF b = 0 THEN a ELSE GCD(b, a % b)

RECURSIVE SetGCD(_, _)
SetGCD(S, g) ==
    IF S = {} THEN g
    ELSE LET x == CHOOSE y \in S : TRUE IN SetGCD(S \ {x}, GCD(g, Abs(x)))

RECURSIVE SumOver(_, _)
SumOver(f, S) ==
    IF S = {} THEN 0
    ELSE LET x == CHOOSE y \in S : TRUE IN f[x] + SumOver(f, S \ {x})

\* d[k] = v on a Python dict
Put(f, k, v) == [x \in DOMAIN f \cup {k} |-> IF x = k THEN v ELSE f[x]]

\* del d[k] for every k in ks
Drop(f, ks) == [x \in DOMAIN f \ ks |-> f[x]]

Range(s) == {s[i] : i \in 1..Len(s)}

\* Lowest terms of the numerators r over the denominator d.
Reduce(r, d) ==
    LET g == SetGCD({r[n] : n \in DOMAIN r}, d)
    IN  [res |-> [n \in DOMAIN r |-> r[n] \div g], den |-> d \div g]

\* A single rational in lowest terms.
Rat(n, d) == LET g == GCD(Abs(n), d) IN <<n \div g, d \div g>>


\* ---- the graph ----------------------------------------------------------------
\* All unordered pairs over the keys K, written <<u, v>> with u < v.
AllPairs(K) == {p \in K \X K : p[1] < p[2]}

\* An edge key: networkx reports an undirected edge from the node that comes
\* first in node order, and nodes are inserted in increasing key order.
EdgeKey(a, b) == IF a < b THEN <<a, b>> ELSE <<b, a>>

RECURSIVE LexSeq(_)
LexSeq(S) ==
    IF S = {} THEN <<>>
    ELSE LET m == CHOOSE p \in S : \A q \in S :
                      p[1] < q[1] \/ (p[1] = q[1] /\ p[2] <= q[2])
         IN  <<m>> \o LexSeq(S \ {m})

TopKey(es) == IF es = <<>> THEN 0
              ELSE CHOOSE k \in {e[1] : e \in Range(es)} :
                       \A e \in Range(es) : e[1] <= k

RECURSIVE GraphEdgesFrom(_, _, _)
GraphEdgesFrom(es, u, top) ==
    IF u > top THEN <<>>
    ELSE SelectSeq(es, LAMBDA e : e[1] = u) \o GraphEdgesFrom(es, u + 1, top)

\* graph.edges(): node by node in node order, each node's edges in the order
\* they were added.
GraphEdges(es) == GraphEdgesFrom(es, 1, TopKey(es))

\* graph.has_edge(a, b)
HasEdge(es, a, b) == EdgeKey(a, b) \in Range(es)

\* graph.neighbors(n)
Neighbors(es, n) ==
    {e[2] : e \in {x \in Range(es) : x[1] = n}} \cup
    {e[1] : e \in {x \in Range(es) : x[2] = n}}

\* attribute reads with their defaults
GetResources(r, n) == IF n \in DOMAIN r THEN r[n] ELSE DefaultResources

\* An edge without capacity read as carrying nothing.
GetCapacityZero(c, e) == IF e \in DOMAIN c THEN c[e] ELSE 0

GetCapacity(c, e) == IF e \in DOMAIN c THEN c[e] ELSE DefaultCapacity

GetStrength(s, e) == IF e \in DOMAIN s THEN s[e] ELSE DefaultStrength

\* Numerators r re-expressed over a denominator q times larger.
Rescale(r, q) == [n \in DOMAIN r |-> r[n] * q]

\* ---- initial graphs -----------------------------------------------------------
\* create_mycelium_inspired_network: nodes added in key order, then edges
\* added pair by pair in lexicographic order.
SmallGraphs ==
    {[nodes |-> SmallKeys,
      resources |-> r,
      edges |-> LexSeq(E),
      capacity |-> [e \in E |-> c],
      strength |-> [e \in E |-> s]] :
        r \in [SmallKeys -> ResValues], E \in SUBSET AllPairs(SmallKeys),
        c \in CapValues, s \in StrengthValues}

\* A star: centre 1 joined to the leaves 2..StarLeaves+1; the leaves are
\* empty except possibly the last one.
StarGraphs ==
    {[nodes |-> 1..(StarLeaves + 1),
      resources |-> [n \in 1..(StarLeaves + 1) |->
                        IF n = 1 THEN rc ELSE IF n = StarLeaves + 1 THEN rl ELSE 0],
      edges |-> [i \in 1..StarLeaves |-> <<1, i + 1>>],
      capacity |-> [e \in {<<1, i + 1>> : i \in 1..StarLeaves} |-> c],
      strength |-> [e \in {<<1, i + 1>> : i \in 1..StarLeaves} |-> s]] :
        rc \in ResValues, rl \in ResValues, c \in CapValues, s \in StrengthValues}

\* Two pairs, 2-5 and 3-4, that hold together only through node 1.
BridgeGraphs ==
    {[nodes |-> BridgeKeys,
      resources |-> [n \in BridgeKeys |-> IF n = 1 THEN rc ELSE 0],
      edges |-> LexSeq(BridgeEdges),
      capacity |-> [e \in BridgeEdges |-> c],
      strength |-> [e \in BridgeEdges |-> s]] :
        rc \in ResValues, c \in CapValues, s \in StrengthValues}

InitialGraphs == SmallGraphs \cup StarGraphs \cup BridgeGraphs

Init ==
    /\ \E g \in InitialGraphs :
        /\ nodes = g.nodes
        /\ resources = g.resources
        /\ edges = g.edges
        /\ capacity = g.capacity
        /\ strength = g.strength
    /\ den = 1
    /\ healing = {}
    /\ flow = [e \in Range(edges) |-> <<0, 1>>]
    /\ driver = FALSE
    /\ last_add = <<>>
    /\ pc = "idle"
    /\ time_left = 0
    /\ flow_history = <<>>
    /\ source_nodes = {}
    /\ sink_nodes = {}
    /\ requested = 0
    /\ damaged_nodes = <<>>
    /\ healing_factor = 0
    /\ healing_actions = <<>>
    /\ stepsDone = 0
    /\ start = 0
    /\ target = 0
    /\ paths = <<>>
    /\ trial = 0
    /\ temp_graph = <<>>

\* A call may start when no algorithm is executing.
Callable == pc \in {"idle", "flow_done", "heal_done", "path_done"}


\* ---- nutrient_flow_simulation ---------------------------------------------------
\* The rate without the capacity limit.
FlowRateUncapped(cap, r1, r2, d) == Abs(r1 - r2) \div RateDivisor

\* ---- nutrient_flow_simulation ---------------------------------------------------
\* flow_rate = min(capacity, abs(resource1 - resource2) * 0.1), as a numerator
\* over the denominator d of the numerators r1 and r2 (both multiples of
\* RateDivisor, so the division is exact).
FlowRate(cap, r1, r2, d) == Min(cap * d, Abs(r1 - r2) \div RateDivisor)

\* flow_direction: from the endpoint holding more to the one holding less.
FlowDirection(e, r1, r2) == IF r1 > r2 THEN <<e[1], e[2]>> ELSE <<e[2], e[1]>>

\* The entry step_flows[edge] computed from the start-of-step numerators r.
FlowEntry(e, r, d, cap) ==
    LET r1 == GetResources(r, e[1])
        r2 == GetResources(r, e[2])
    IN  [edge |-> e,
         direction |-> FlowDirection(e, r1, r2),
         amount |-> FlowRate(GetCapacity(cap, e), r1, r2, d)]

\* step_flows: one entry per edge of `order` whose endpoints differ, in order.
RECURSIVE SnapshotFlows(_, _, _, _)
SnapshotFlows(order, r, d, cap) ==
    IF order = <<>> THEN <<>>
    ELSE LET e == Head(order)
             rest == SnapshotFlows(Tail(order), r, d, cap)
         IN  IF GetResources(r, e[1]) # GetResources(r, e[2])
             THEN <<FlowEntry(e, r, d, cap)>> \o rest
             ELSE rest

\* The debit without its clamp at zero.
DebitUnclamped(current_from, amount) == current_from - amount

\* graph.nodes[from_node]['resources'] = max(0, current_from - amount)
Debit(current_from, amount) == Max(0, current_from - amount)

\* graph.nodes[to_node]['resources'] = current_to + amount
Credit(current_to, amount) == current_to + amount

\* The reinforcement without its cap.
StrengthenUncapped(current_strength) == current_strength + StrengthGain

\* A used pathway weakened instead of strengthened.
StrengthenDecay(current_strength) == Min(StrengthCap, current_strength - StrengthGain)

\* graph.edges[edge]['strength'] = min(2.0, current_strength + 0.1)
Strengthen(current_strength) == Min(StrengthCap, current_strength + StrengthGain)

\* One iteration of the apply loop.
ApplyFlow(f, g) ==
    LET from_node == f.direction[1]
        to_node == f.direction[2]
        current_from == GetResources(g.res, from_node)
        current_to == GetResources(g.res, to_node)
        debited == Put(g.res, from_node, Debit(current_from, f.amount))
    IN  [res |-> Put(debited, to_node, Credit(current_to, f.amount)),
         str |-> Put(g.str, f.edge, Strengthen(GetStrength(g.str, f.edge)))]

\* The apply loop over step_flows.items(), in the order given.
RECURSIVE ApplyFlows(_, _)
ApplyFlows(flows, g) ==
    IF flows = <<>> THEN g
    ELSE ApplyFlows(Tail(flows), ApplyFlow(Head(flows), g))

\* The recorded step_flows with amounts as rationals in lowest terms.
Recorded(flows, d) ==
    [i \in 1..Len(flows) |->
        [edge |-> flows[i].edge, direction |-> flows[i].direction,
         amount |-> Rat(flows[i].amount, d)]]

\* The snapshot loop of a call made with the given source_nodes and
\* sink_nodes, restricted to flows that leave a source node.
StepFlowsFromSources(sources, sinks, es, r, d, cap) ==
    SelectSeq(SnapshotFlows(GraphEdges(es), r, d, cap),
              LAMBDA f : f.direction[1] \in sources)

\* The snapshot loop of a call made with the given source_nodes and
\* sink_nodes: step_flows over every edge of graph.edges().
StepFlows(sources, sinks, es, r, d, cap) ==
    SnapshotFlows(GraphEdges(es), r, d, cap)

\* nutrient_flow_simulation(graph, source_nodes, sink_nodes, time_steps)
FlowCallWith(sources, sinks, time_steps) ==
    /\ Callable
    /\ time_steps <= MaxSteps - stepsDone
    /\ pc' = "flow"
    /\ time_left' = time_steps
    /\ requested' = time_steps
    /\ source_nodes' = sources
    /\ sink_nodes' = sinks
    /\ flow_history' = <<>>
    /\ damaged_nodes' = <<>>
    /\ healing_factor' = 0
    /\ healing_actions' = <<>>
    /\ UNCHANGED <<graphVars, stepsDone, pathVars, dbVars>>

\* nutrient_flow_simulation(graph, [], [], time_steps)
FlowCall(time_steps) == FlowCallWith({}, {}, time_steps)

\* One iteration of `for step in range(time_steps)`: snapshot, apply, append.
FlowStep ==
    /\ pc = "flow"
    /\ time_left > 0
    /\ LET d == den * RateDivisor
           r == Rescale(resources, RateDivisor)
           step_flows == StepFlows(source_nodes, sink_nodes, edges, r, d, capacity)
           after == ApplyFlows(step_flows, [res |-> r, str |-> strength])
           low == Reduce(after.res, d)
       IN  /\ resources' = low.res
           /\ den' = low.den
           /\ strength' = after.str
           /\ flow_history' = Append(flow_history, Recorded(step_flows, d))
    /\ time_left' = time_left - 1
    /\ stepsDone' = stepsDone + 1
    /\ UNCHANGED <<nodes, edges, capacity, healing, flow, pc, flowArgs, healVars,
                   pathVars, dbVars>>

\* return flow_history
FlowReturn ==
    /\ pc = "flow"
    /\ time_left = 0
    /\ pc' = "flow_done"
    /\ UNCHANGED <<graphVars, flowVars, healVars, stepsDone, pathVars, dbVars>>

\* ---- self_healing_response -------------------------------------------------------
\* Every neighbour handed the whole amount instead of its share.
ResourceUndivided(R, d, k) == <<R, d>>

\* resource_per_neighbor = resources / len(neighbors), as a rational: the
\* numerator R over the denominator d divided among k neighbours.
ResourcePerNeighbor(R, d, k) == <<R, d * k>>

\* The loop `for neighbor in neighbors`: every neighbour's resources grows by
\* share = <<p, q>>, with q a multiple of d.  The result is over q.
Redistribute(r, d, nbrs, share) ==
    LET q == share[2]
        scaled == Rescale(r, q \div d)
    IN  [n \in DOMAIN r \cup nbrs |->
            IF n \in nbrs
            THEN GetResources(scaled, n) + share[1]
            ELSE scaled[n]]

\* graph.remove_node(node) on the edge list: incident edges go with the node.
RemoveNodeEdges(es, node) == SelectSeq(es, LAMBDA e : e[1] # node /\ e[2] # node)

IncidentEdges(es, node) == {e \in Range(es) : e[1] = node \/ e[2] = node}

\* The nodes reachable from the set S.
RECURSIVE Reach(_, _)
Reach(S, es) ==
    LET more == S \cup UNION {Neighbors(es, n) : n \in S}
    IN  IF more = S THEN S ELSE Reach(more, es)

\* list(nx.connected_components(graph)): one component per not yet seen node,
\* in node order.
RECURSIVE Components(_, _)
Components(ns, es) ==
    IF ns = {} THEN <<>>
    ELSE LET first == CHOOSE n \in ns : \A m \in ns : n <= m
             comp == Reach({first}, es)
         IN  <<comp>> \o Components(ns \ comp, es)

\* Both endpoints drawn from the same component.
RECURSIVE HealingPairsSame(_, _)
HealingPairsSame(components, i) ==
    IF i >= Len(components) THEN {<<>>}
    ELSE {<<pair>> \o rest : pair \in components[i] \X components[i],
                             rest \in HealingPairsSame(components, i + 1)}

\* Every component after the first joined to the first one.
RECURSIVE HealingPairsFirst(_, _)
HealingPairsFirst(components, i) ==
    IF i >= Len(components) THEN {<<>>}
    ELSE {<<pair>> \o rest : pair \in components[1] \X components[i + 1],
                             rest \in HealingPairsFirst(components, i + 1)}

\* The outcomes of the loop `for i in range(len(components) - 1)` from index
\* i on: every sequence of pairs <<node1, node2>> random.choice can draw.
RECURSIVE HealingPairs(_, _)
HealingPairs(components, i) ==
    IF i >= Len(components) THEN {<<>>}
    ELSE {<<pair>> \o rest : pair \in components[i] \X components[i + 1],
                             rest \in HealingPairs(components, i + 1)}

\* The edge list after graph.add_edge for each pair, in order.
RECURSIVE AddEdges(_, _)
AddEdges(es, pairs) ==
    IF pairs = <<>> THEN es
    ELSE LET e == EdgeKey(Head(pairs)[1], Head(pairs)[2])
         IN  AddEdges(IF e \in Range(es) THEN es ELSE Append(es, e), Tail(pairs))

PairEdges(pairs) == {EdgeKey(pairs[i][1], pairs[i][2]) : i \in 1..Len(pairs)}

DamagedLists == UNION {[1..n -> DamageKeys] : n \in 0..MaxDamaged}

\* The node goes only when it has neighbours.
RemoveNodeLinked(ns, es, node) ==
    IF Neighbors(es, node) # {} THEN ns \ {node} ELSE ns

\* graph.remove_node(node), outside the `if neighbors:` block: the node
\* goes whatever edges es it has.
RemoveNode(ns, es, node) == ns \ {node}

\* The test left out: every key is taken to be in the graph.
PresentAlways(node, ns) == TRUE

\* if node in graph.nodes()
Present(node, ns) == node \in ns

\* self_healing_response(graph, damaged_nodes, healing_factor)
HealCall(damaged, factor) ==
    /\ Callable
    /\ pc' = "heal"
    /\ damaged_nodes' = damaged
    /\ healing_factor' = factor
    /\ healing_actions' = <<>>
    /\ time_left' = 0
    /\ flow_history' = <<>>
    /\ source_nodes' = {}
    /\ sink_nodes' = {}
    /\ requested' = 0
    /\ UNCHANGED <<graphVars, stepsDone, pathVars, dbVars>>

\* One iteration of `for node in damaged_nodes`.
HealNode ==
    /\ pc = "heal"
    /\ damaged_nodes # <<>>
    /\ damaged_nodes' = Tail(damaged_nodes)
    /\ LET node == Head(damaged_nodes)
           neighbors == Neighbors(edges, node)
           R == GetResources(resources, node)
           share == ResourcePerNeighbor(R, den, Cardinality(neighbors))
           given == IF neighbors # {}
                    THEN [res |-> Redistribute(resources, den, neighbors, share),
                          den |-> share[2]]
                    ELSE [res |-> resources, den |-> den]
           low == Reduce(Drop(given.res, {node}), given.den)
       IN  IF Present(node, nodes)
           THEN /\ resources' = low.res
                /\ den' = low.den
                /\ nodes' = RemoveNode(nodes, edges, node)
                /\ edges' = RemoveNodeEdges(edges, node)
                /\ capacity' = Drop(capacity, IncidentEdges(edges, node))
                /\ strength' = Drop(strength, IncidentEdges(edges, node))
                /\ healing' = healing \ IncidentEdges(edges, node)
                /\ flow' = Drop(flow, IncidentEdges(edges, node))
                /\ healing_actions' = Append(healing_actions,
                       [kind |-> "removed", node |-> node, amount |-> Rat(R, den)])
           ELSE UNCHANGED <<graphVars, healing_actions>>
    /\ UNCHANGED <<pc, flowVars, healing_factor, stepsDone, pathVars, dbVars>>

\* The reconnection of the components, then `return healing_actions`.
HealConnect ==
    /\ pc = "heal"
    /\ damaged_nodes = <<>>
    /\ LET components == Components(nodes, edges)
       IN  IF Len(components) > 1
           THEN \E pairs \in HealingPairs(components, 1) :
                /\ edges' = AddEdges(edges, pairs)
                /\ strength' = [e \in DOMAIN strength \cup PairEdges(pairs) |->
                                   IF e \in PairEdges(pairs) THEN healing_factor
                                   ELSE strength[e]]
                /\ capacity' = [e \in DOMAIN capacity \cup PairEdges(pairs) |->
                                   IF e \in PairEdges(pairs) THEN HealCapacity
                                   ELSE capacity[e]]
                /\ healing' = healing \cup PairEdges(pairs)
                /\ healing_actions' = healing_actions \o
                       [i \in 1..Len(pairs) |->
                           [kind |-> "connected", node1 |-> pairs[i][1],
                            node2 |-> pairs[i][2]]]
           ELSE UNCHANGED <<edges, strength, capacity, healing, healing_actions>>
    /\ pc' = "heal_done"
    /\ UNCHANGED <<nodes, resources, den, flow, damaged_nodes, flowVars,
                   healing_factor, stepsDone, pathVars, dbVars>>

\* ---- hyphal_growth_pathfinding ---------------------------------------------------
Last(p) == p[Len(p)]

\* Breadth-first search: `frontier` holds every path of the current length
\* from the start to a node first reached at that length.
RECURSIVE Bfs(_, _, _, _)
Bfs(es, goal, frontier, seen) ==
    IF \E p \in frontier : Last(p) = goal
    THEN {p \in frontier : Last(p) = goal}
    ELSE LET next == UNION {{Append(p, n) : n \in Neighbors(es, Last(p)) \ seen} :
                               p \in frontier}
         IN  IF next = {} THEN {}
             ELSE Bfs(es, goal, next, seen \cup {Last(p) : p \in next})

\* Every simple path that extends p to the goal.
RECURSIVE SimplePaths(_, _, _)
SimplePaths(es, p, goal) ==
    IF Last(p) = goal THEN {p}
    ELSE UNION {SimplePaths(es, Append(p, n), goal) :
                    n \in Neighbors(es, Last(p)) \ Range(p)}

\* A search that returns the first path it completes, of any length.
AnyPaths(es, source, goal) == SimplePaths(es, <<source>>, goal)

\* A search that reports the direct hop when it finds no path.
DirectPaths(es, source, goal) ==
    IF Bfs(es, goal, {<<source>>}, {source}) = {}
    THEN {<<source, goal>>}
    ELSE Bfs(es, goal, {<<source>>}, {source})

\* nx.shortest_path(graph, source, target): the paths it can return, one of
\* the fewest-hop paths (which one depends on adjacency order); the empty
\* set stands for nx.NetworkXNoPath.
ShortestPaths(es, source, goal) == Bfs(es, goal, {<<source>>}, {source})

\* The edges path[i], path[i+1] of the paths found so far that the copy has.
PathEdges(found, es) ==
    {e \in Range(es) : \E k \in 1..Len(found) : \E i \in 1..(Len(found[k].path) - 1) :
        e = EdgeKey(found[k].path[i], found[k].path[i + 1])}

\* temp_graph after temp_graph.remove_edge for each edge of `removed`.
RemoveEdges(es, removed) == SelectSeq(es, LAMBDA e : e \notin removed)

\* temp_graph = graph: the removals land in the caller's graph.
AliasedEdges(es, copy) == copy

\* temp_graph = graph.copy(): the caller's edges after the copy lost edges.
CallerEdges(es, copy) == es

\* The append without the membership test.
AppendAlways(found, alt_path) ==
    Append(found, [label |-> "alternative", n |-> Len(found), path |-> alt_path])

\* if alt_path not in [p[1] for p in paths]: paths.append(...)
AppendAlternative(found, alt_path) ==
    IF alt_path \in {found[k].path : k \in 1..Len(found)}
    THEN found
    ELSE Append(found, [label |-> "alternative", n |-> Len(found), path |-> alt_path])

\* No inner handler: the outer `except nx.NetworkXNoPath: return []` takes
\* the trial's exception and the result is empty.
TrialNoPathEmpty(found) == <<>>

\* except nx.NetworkXNoPath: continue -- the trial adds nothing.
TrialNoPath(found) == found

\* hyphal_growth_pathfinding(graph, start, target), up to the primary path
PathCall(s, t) ==
    /\ Callable
    /\ s \in nodes
    /\ t \in nodes
    /\ start' = s
    /\ target' = t
    /\ trial' = 0
    /\ temp_graph' = <<>>
    /\ IF ShortestPaths(edges, s, t) = {}
       THEN /\ paths' = <<>>
            /\ pc' = "path_done"
       ELSE /\ \E primary \in ShortestPaths(edges, s, t) :
                paths' = <<[label |-> "primary", n |-> 0, path |-> primary]>>
            /\ pc' = "path"
    /\ time_left' = 0
    /\ flow_history' = <<>>
    /\ source_nodes' = {}
    /\ sink_nodes' = {}
    /\ requested' = 0
    /\ damaged_nodes' = <<>>
    /\ healing_factor' = 0
    /\ healing_actions' = <<>>
    /\ UNCHANGED <<graphVars, stepsDone, dbVars>>

\* One iteration of `for _ in range(3)`.
PathTrial ==
    /\ pc = "path"
    /\ trial < AltTrials
    /\ trial' = trial + 1
    /\ \E removed \in SUBSET PathEdges(paths, edges) :
        LET copy == RemoveEdges(edges, removed)
            alts == ShortestPaths(copy, start, target)
        IN  /\ temp_graph' = copy
            /\ edges' = CallerEdges(edges, copy)
            /\ IF alts = {}
               THEN paths' = TrialNoPath(paths)
               ELSE \E alt_path \in alts : paths' = AppendAlternative(paths, alt_path)
    /\ UNCHANGED <<nodes, resources, den, capacity, strength, healing, flow, pc,
                   flowVars, healVars, stepsDone, start, target, dbVars>>

\* return paths
PathReturn ==
    /\ pc = "path"
    /\ trial = AltTrials
    /\ pc' = "path_done"
    /\ temp_graph' = <<>>
    /\ UNCHANGED <<graphVars, flowVars, healVars, stepsDone, start, target, paths,
                   trial, dbVars>>

Next ==
    \/ \E time_steps \in 0..MaxSteps : FlowCall(time_steps)
    \/ FlowStep
    \/ FlowReturn
    \/ \E damaged \in DamagedLists, factor \in HealingFactors : HealCall(damaged, factor)
    \/ HealNode
    \/ HealConnect

Spec == Init /\ [][Next]_vars

\* ---- pathfinding on its own -------------------------------------------------------
\* Graphs as add_mycelial_node / add_mycelial_connection build them with
\* their default attributes.
PathGraphs ==
    {[nodes |-> PathKeys,
      resources |-> [n \in PathKeys |-> NewNodeResources],
      edges |-> LexSeq(E),
      capacity |-> [e \in E |-> NewEdgeCapacity],
      strength |-> [e \in E |-> NewEdgeStrength]] : E \in SUBSET AllPairs(PathKeys)}

InitPath ==
    /\ \E g \in PathGraphs :
        /\ nodes = g.nodes
        /\ resources = g.resources
        /\ edges = g.edges
        /\ capacity = g.capacity
        /\ strength = g.strength
    /\ den = 1
    /\ healing = {}
    /\ flow = [e \in Range(edges) |-> <<0, 1>>]
    /\ driver = FALSE
    /\ last_add = <<>>
    /\ pc = "idle"
    /\ time_left = 0
    /\ flow_history = <<>>
    /\ source_nodes = {}
    /\ sink_nodes = {}
    /\ requested = 0
    /\ damaged_nodes = <<>>
    /\ healing_factor = 0
    /\ healing_actions = <<>>
    /\ stepsDone = 0
    /\ start = 0
    /\ target = 0
    /\ paths = <<>>
    /\ trial = 0
    /\ temp_graph = <<>>

NextPath ==
    \/ \E s \in PathKeys, t \in PathKeys : PathCall(s, t)
    \/ PathTrial
    \/ PathReturn

SpecPath == InitPath /\ [][NextPath]_vars

\* ---- properties --------------------------------------------------------------------
Total(r) == SumOver(r, DOMAIN r)

\* The step_flows of the time step about to run, over the denominator
\* den * RateDivisor, and the graph they are applied to.
PendingFlows ==
    SnapshotFlows(GraphEdges(edges), Rescale(resources, RateDivisor),
                  den * RateDivisor, capacity)

PendingGraph == [res |-> Rescale(resources, RateDivisor), str |-> strength]

Reverse(q) == [i \in 1..Len(q) |-> q[Len(q) + 1 - i]]

Rotate(q, k) == [i \in 1..Len(q) |-> q[((i + k - 1) % Len(q)) + 1]]

\* The orders in which the apply loop is compared: all of them for a short
\* step_flows, the reversal and the rotations for a long one.
ApplyOrders(q) ==
    IF Len(q) <= MaxPermLen
    THEN {[i \in 1..Len(q) |-> q[f[i]]] : f \in Permutations(1..Len(q))}
    ELSE {Reverse(q)} \cup {Rotate(q, k) : k \in 1..Len(q)}

\* The nodes within k hops of the set S.
RECURSIVE Within(_, _, _)
Within(es, S, k) ==
    IF k <= 0 THEN S
    ELSE Within(es, S \cup UNION {Neighbors(es, n) : n \in S}, k - 1)

\* C1: every time step of nutrient_flow_simulation leaves the sum of all
\* nodes' resources unchanged.
C1_FlowConservation ==
    [][FlowStep => Total(resources') * den = Total(resources) * den']_vars

\* C2: the result of a time step does not depend on the order in which the
\* step's recorded flows are applied.
C2_OrderIndependent ==
    (pc = "flow" /\ time_left > 0) =>
        \A order \in ApplyOrders(PendingFlows) :
            ApplyFlows(order, PendingGraph) = ApplyFlows(PendingFlows, PendingGraph)

\* C3: after any interleaving of flow simulations and healing calls, every
\* node's resources is >= 0.
C3_NonNegative == \A n \in DOMAIN resources : resources[n] >= 0

\* A flow simulation that moved resource along a healing connection's graph
\* has returned.
C3_Witness ==
    /\ pc = "flow_done"
    /\ healing # {}
    /\ flow_history # <<>>
    /\ flow_history[Len(flow_history)] # <<>>
    /\ \E n \in DOMAIN resources : resources[n] = 0

\* C4: after any number of time steps every edge's strength is <= 2.0.
C4_StrengthBound == \A e \in DOMAIN strength : strength[e] <= StrengthCap

\* An edge that carried flow sits at the cap.
C4_Witness ==
    /\ pc = "flow_done"
    /\ \E i \in 1..Len(flow_history) : \E j \in 1..Len(flow_history[i]) :
        /\ flow_history[i][j].edge \in DOMAIN strength
        /\ strength[flow_history[i][j].edge] = StrengthCap

\* C5: when healing processes a present damaged node holding R with k >= 1
\* neighbours, each neighbour's resources grows by exactly R / k and the node
\* and its incident edges are gone afterwards.
C5_HealingShare ==
    [][(HealNode /\ Head(damaged_nodes) \in nodes
                 /\ Neighbors(edges, Head(damaged_nodes)) # {}) =>
        LET node == Head(damaged_nodes)
            neighbors == Neighbors(edges, node)
            k == Cardinality(neighbors)
            R == GetResources(resources, node)
        IN  /\ node \notin nodes'
            /\ node \notin DOMAIN resources'
            /\ IncidentEdges(edges', node) = {}
            /\ \A nb \in neighbors :
                (GetResources(resources', nb) * den
                    - GetResources(resources, nb) * den') * k = R * den'
       ]_vars

\* Before any flow, a node holding 30 was removed and its two neighbours
\* were handed 15 each.
C5_Witness ==
    /\ pc = "heal"
    /\ stepsDone = 0
    /\ Len(healing_actions) = 1
    /\ healing_actions[1].amount = <<30, 1>>
    /\ den = 1
    /\ \E n \in nodes : resources[n] \in {15, 45}

\* C6: when removing the damaged nodes leaves two or more components, the
\* graph has exactly one component when healing returns.
C6_HealingConnects ==
    [][(HealConnect /\ Len(Components(nodes, edges)) >= 2) =>
        Len(Components(nodes', edges')) = 1]_vars

\* Healing returned after chaining three or more components.
C6_Witness ==
    /\ pc = "heal_done"
    /\ Len(SelectSeq(healing_actions, LAMBDA a : a.kind = "connected")) >= 2

\* C7: for connected start and target the result is non-empty and its first
\* entry is the primary path, a path of the graph from start to target with
\* the fewest hops possible.
C7_PrimaryShortest ==
    (pc = "path_done" /\ target \in Reach({start}, edges)) =>
        /\ paths # <<>>
        /\ paths[1].label = "primary"
        /\ LET primary == paths[1].path
               hops == Len(primary) - 1
           IN  /\ primary[1] = start
               /\ Last(primary) = target
               /\ \A i \in 1..hops : HasEdge(edges, primary[i], primary[i + 1])
               /\ target \in Within(edges, {start}, hops)
               /\ target \notin Within(edges, {start}, hops - 1) \/ hops = 0

\* A three-hop primary path was returned.
C7_Witness ==
    /\ pc = "path_done"
    /\ paths # <<>>
    /\ Len(paths[1].path) = 4

\* C8: for start and target with no path between them the result is exactly
\* the empty sequence.
C8_NoPathEmpty ==
    (pc = "path_done" /\ target \notin Reach({start}, edges)) => paths = <<>>

\* The call returned for a disconnected pair in a graph that has edges.
C8_Witness ==
    /\ pc = "path_done"
    /\ target \notin Reach({start}, edges)
    /\ edges # <<>>
    /\ paths = <<>>

\* C9: no two entries of the result have the same node sequence.
C9_Distinct ==
    \A i \in 1..Len(paths) : \A j \in 1..Len(paths) :
        i # j => paths[i].path # paths[j].path

\* A primary path and three distinct alternatives were returned.
C9_Witness ==
    /\ pc = "path_done"
    /\ Len(paths) = AltTrials + 1

\* C10: pathfinding never changes the caller's graph.
C10_GraphUntouched ==
    [][((\E s \in PathKeys, t \in PathKeys : PathCall(s, t)) \/ PathTrial \/ PathReturn)
        => UNCHANGED graphVars]_vars

\* An alternative longer than the primary was returned, so a trial removed
\* an edge of the primary path from its copy, and the graph still has every
\* edge of the primary path.
C10_Witness ==
    /\ pc = "path_done"
    /\ Len(paths) >= 2
    /\ Len(paths[2].path) > Len(paths[1].path)
    /\ \A i \in 1..(Len(paths[1].path) - 1) :
        HasEdge(edges, paths[1].path[i], paths[1].path[i + 1])

\* ---- the flow simulation with its source and sink arguments ----------------------
InitFlow ==
    /\ \E g \in SmallGraphs :
        /\ nodes = g.nodes
        /\ resources = g.resources
        /\ edges = g.edges
        /\ capacity = g.capacity
        /\ strength = g.strength
    /\ den = 1
    /\ healing = {}
    /\ flow = [e \in Range(edges) |-> <<0, 1>>]
    /\ driver = FALSE
    /\ last_add = <<>>
    /\ pc = "idle"
    /\ time_left = 0
    /\ flow_history = <<>>
    /\ source_nodes = {}
    /\ sink_nodes = {}
    /\ requested = 0
    /\ damaged_nodes = <<>>
    /\ healing_factor = 0
    /\ healing_actions = <<>>
    /\ stepsDone = 0
    /\ start = 0
    /\ target = 0
    /\ paths = <<>>
    /\ trial = 0
    /\ temp_graph = <<>>

NextFlow ==
    \/ \E sources \in NodeLists, sinks \in NodeLists, time_steps \in 0..MaxSteps :
        FlowCallWith(sources, sinks, time_steps)
    \/ FlowStep
    \/ FlowReturn

SpecFlow == InitFlow /\ [][NextFlow]_vars

\* C11: source_nodes and sink_nodes have no influence: whatever lists the
\* call was made with, the step about to run records the same flows, one
\* for every edge whose endpoints hold different amounts, and so reaches the
\* same graph state and flow history.
C11_ArgsIgnored ==
    (pc = "flow" /\ time_left > 0) =>
        LET r == Rescale(resources, RateDivisor)
            d == den * RateDivisor
            mine == StepFlows(source_nodes, sink_nodes, edges, r, d, capacity)
        IN  /\ \A sources \in NodeLists : \A sinks \in NodeLists :
                  StepFlows(sources, sinks, edges, r, d, capacity) = mine
            /\ \A e \in Range(edges) :
                  GetResources(r, e[1]) # GetResources(r, e[2]) =>
                      \E i \in 1..Len(mine) : mine[i].edge = e

\* A call naming node 1 as the only source and as the only sink moved
\* resource along an edge that does not touch node 1.
C11_Witness ==
    /\ pc = "flow_done"
    /\ source_nodes = {1}
    /\ sink_nodes = {1}
    /\ \E i \in 1..Len(flow_history) : \E j \in 1..Len(flow_history[i]) :
        /\ flow_history[i][j].edge = <<2, 3>>
        /\ flow_history[i][j].amount[1] > 0

\* ---- MyceliumGraphDatabase ------------------------------------------------------
DbKeys == {1, 2}

\* The add operations may be called when nothing is executing, also after
\* one of them raised.
DbCallable == pc \in {"idle", "add_done", "add_raised"}

\* How an add operation ends: session.write_transaction runs only if the
\* driver is set, and nothing catches what it raises.
AddOutcome(attached, mirror_ok) ==
    IF attached /\ ~mirror_ok THEN "add_raised" ELSE "add_done"

\* add_mycelial_node(node_id, resources); mirror_ok tells whether the
\* mirror write succeeds.
AddNode(node_id, res, mirror_ok) ==
    /\ DbCallable
    /\ nodes' = nodes \cup {node_id}
    /\ resources' = Put(resources, node_id, res * den)
    /\ last_add' = [kind |-> "node", key |-> node_id, mirror_ok |-> mirror_ok]
    /\ pc' = AddOutcome(driver, mirror_ok)
    /\ UNCHANGED <<den, edges, capacity, strength, healing, flow, driver,
                   flowVars, healVars, stepsDone, pathVars>>

\* add_mycelial_connection(node1, node2, strength, transport_capacity);
\* graph.add_edge creates missing endpoints without attributes.
AddConnection(node1, node2, str, cap, mirror_ok) ==
    /\ DbCallable
    /\ node1 # node2
    /\ LET e == EdgeKey(node1, node2)
       IN  /\ nodes' = nodes \cup {node1, node2}
           /\ edges' = IF e \in Range(edges) THEN edges ELSE Append(edges, e)
           /\ strength' = Put(strength, e, str)
           /\ capacity' = Put(capacity, e, cap)
           /\ flow' = Put(flow, e, <<0, 1>>)
           /\ last_add' = [kind |-> "edge", key |-> e, mirror_ok |-> mirror_ok]
    /\ pc' = AddOutcome(driver, mirror_ok)
    /\ UNCHANGED <<resources, den, healing, driver, flowVars, healVars,
                   stepsDone, pathVars>>

\* MyceliumGraphDatabase(...): an empty graph, with or without a driver.
InitDb ==
    /\ nodes = {}
    /\ resources = <<>>
    /\ den = 1
    /\ edges = <<>>
    /\ capacity = <<>>
    /\ strength = <<>>
    /\ healing = {}
    /\ flow = <<>>
    /\ driver \in BOOLEAN
    /\ last_add = <<>>
    /\ pc = "idle"
    /\ time_left = 0
    /\ flow_history = <<>>
    /\ source_nodes = {}
    /\ sink_nodes = {}
    /\ requested = 0
    /\ damaged_nodes = <<>>
    /\ healing_factor = 0
    /\ healing_actions = <<>>
    /\ stepsDone = 0
    /\ start = 0
    /\ target = 0
    /\ paths = <<>>
    /\ trial = 0
    /\ temp_graph = <<>>

NextDb ==
    \/ \E node_id \in DbKeys, res \in ResValues, mirror_ok \in BOOLEAN :
        AddNode(node_id, res, mirror_ok)
    \/ \E node1 \in DbKeys, node2 \in DbKeys, str \in StrengthValues,
          cap \in CapValues, mirror_ok \in BOOLEAN :
        AddConnection(node1, node2, str, cap, mirror_ok)

SpecDb == InitDb /\ [][NextDb]_vars

\* The node or edge of the last add call is in the graph with the
\* attributes it was given.
LastAddPresent ==
    IF last_add.kind = "node"
    THEN last_add.key \in nodes /\ last_add.key \in DOMAIN resources
    ELSE /\ last_add.key \in Range(edges)
         /\ last_add.key \in DOMAIN strength \cap DOMAIN capacity \cap DOMAIN flow

\* C12: when a mirror is attached and its write fails, the add operation
\* still completes without raising and the node or edge is in the graph.
C12_MirrorIsolated ==
    (pc \in {"add_done", "add_raised"} /\ driver /\ ~last_add.mirror_ok) =>
        (pc = "add_done" /\ LastAddPresent)

\* ---- the record of a time step ------------------------------------------------------
\* The record rec is the one a step run from the current state must append:
\* one entry per edge whose endpoints differ and none for the others, each
\* with the amount min(capacity, 0.1 * difference) and pointing from the
\* endpoint holding more to the one holding less.
RecordOfStep(rec) ==
    /\ \A j \in 1..Len(rec) : rec[j].edge \in Range(edges)
    /\ \A e \in Range(edges) :
        LET r1 == GetResources(resources, e[1])
            r2 == GetResources(resources, e[2])
            at == {j \in 1..Len(rec) : rec[j].edge = e}
        IN  /\ Cardinality(at) = IF r1 # r2 THEN 1 ELSE 0
            /\ \A j \in at :
                /\ rec[j].amount[1] * RateDivisor * den =
                       rec[j].amount[2] *
                           Min(GetCapacity(capacity, e) * RateDivisor * den, Abs(r1 - r2))
                /\ {rec[j].direction[1], rec[j].direction[2]} = {e[1], e[2]}
                /\ GetResources(resources, rec[j].direction[1]) >
                       GetResources(resources, rec[j].direction[2])

\* C13: every time step appends one record, built from the start-of-step
\* values as RecordOfStep says, and the returned history has exactly
\* time_steps records.
C13_StepRecord ==
    /\ [](pc = "flow_done" => Len(flow_history) = requested)
    /\ [][FlowStep =>
            /\ Len(flow_history') = Len(flow_history) + 1
            /\ SubSeq(flow_history', 1, Len(flow_history)) = flow_history
            /\ RecordOfStep(flow_history'[Len(flow_history')])]_vars

\* A two-step simulation returned; its first step moved a capacity-limited
\* amount and its second step an amount that is not a whole number.
C13_Witness ==
    /\ pc = "flow_done"
    /\ requested = 2
    /\ \E j \in 1..Len(flow_history[1]) : flow_history[1][j].amount = <<1, 1>>
    /\ \E j \in 1..Len(flow_history[2]) : flow_history[2][j].amount[2] > 1

\* The edges with an entry of nonzero amount in the record rec.
Carried(rec) == {rec[j].edge : j \in {i \in 1..Len(rec) : rec[i].amount[1] > 0}}

C15_FlowAttribute ==
    [][FlowStep =>
        LET rec == flow_history'[Len(flow_history')]
        IN  \A j \in 1..Len(rec) :
                rec[j].amount[1] > 0 =>
                    /\ rec[j].edge \in DOMAIN flow'
                    /\ flow'[rec[j].edge] = rec[j].amount
       ]_vars

\* ---- the actions healing reports -----------------------------------------------------
Removals(actions) == SelectSeq(actions, LAMBDA a : a.kind = "removed")

Connections(actions) == SelectSeq(actions, LAMBDA a : a.kind = "connected")

\* C16: healing visits damaged_nodes in order; a key not in the graph at
\* that moment is skipped with no effect; a present one is removed, alone,
\* and reported once.  The result lists the removals in processing order,
\* followed by one entry per healing edge in creation order.
C16_HealingReport ==
    /\ [][HealNode =>
            LET node == Head(damaged_nodes)
            IN  /\ damaged_nodes' = Tail(damaged_nodes)
                /\ IF node \in nodes
                   THEN /\ nodes' = nodes \ {node}
                        /\ Len(healing_actions') = Len(healing_actions) + 1
                        /\ SubSeq(healing_actions', 1, Len(healing_actions))
                               = healing_actions
                        /\ Last(healing_actions').kind = "removed"
                        /\ Last(healing_actions').node = node
                   ELSE UNCHANGED <<graphVars, healing_actions>>]_vars
    /\ [][HealConnect =>
            LET added == Len(edges') - Len(edges)
                joined == Connections(healing_actions')
            IN  /\ nodes' = nodes
                /\ healing_actions' = healing_actions \o joined
                /\ Len(joined) = added
                /\ \A j \in 1..added :
                       EdgeKey(joined[j].node1, joined[j].node2)
                           = edges'[Len(edges) + j]]_vars
    /\ [](pc = "heal" =>
            /\ healing_actions = Removals(healing_actions)
            /\ \A i, j \in 1..Len(healing_actions) :
                   /\ healing_actions[i].node \notin nodes
                   /\ i # j => healing_actions[i].node # healing_actions[j].node)

\* Healing returned after removing two nodes, one per list entry, and
\* joining the pieces left behind.
C16_Witness ==
    /\ pc = "heal_done"
    /\ Len(Removals(healing_actions)) = 2
    /\ Len(Connections(healing_actions)) >= 1
    /\ healing_actions = Removals(healing_actions) \o Connections(healing_actions)

\* C17: with c components left after the removals, healing adds exactly
\* c - 1 edges when c > 1 and none otherwise; the i-th joins a node of
\* component i to a node of component i + 1 and gets strength
\* healing_factor, capacity 5 and the healing_connection flag.  No edge
\* that was there before gains the flag.
C17_HealingChain ==
    [][HealConnect =>
        LET components == Components(nodes, edges)
            c == Len(components)
            added == Len(edges') - Len(edges)
            joined == Connections(healing_actions')
        IN  /\ added = IF c > 1 THEN c - 1 ELSE 0
            /\ SubSeq(edges', 1, Len(edges)) = edges
            /\ Len(joined) = added
            /\ \A i \in 1..added :
                LET e == edges'[Len(edges) + i]
                IN  /\ e = EdgeKey(joined[i].node1, joined[i].node2)
                    /\ joined[i].node1 \in components[i]
                    /\ joined[i].node2 \in components[i + 1]
                    /\ e \notin Range(edges)
                    /\ strength'[e] = healing_factor
                    /\ capacity'[e] = HealCapacity
                    /\ e \in healing'
            /\ healing' \cap Range(edges) = healing
            /\ \A e \in Range(edges) :
                /\ strength'[e] = strength[e]
                /\ capacity'[e] = capacity[e]
       ]_vars

\* Healing returned with a flagged edge of the healing strength and
\* capacity next to an edge that was there before and carries no flag.
C17_Witness ==
    /\ pc = "heal_done"
    /\ Connections(healing_actions) # <<>>
    /\ \E e \in healing :
        /\ strength[e] = healing_factor
        /\ capacity[e] = HealCapacity
    /\ Range(edges) \ healing # {}

\* C18: a damaged node that is in the graph and has no neighbours gives
\* nothing to anyone: the resources of every other node stay as they were,
\* the node is removed all the same and its removal is reported.
C18_IsolatedRemoved ==
    [][(HealNode /\ Head(damaged_nodes) \in nodes
                 /\ Neighbors(edges, Head(damaged_nodes)) = {}) =>
        LET node == Head(damaged_nodes)
        IN  /\ nodes' = nodes \ {node}
            /\ DOMAIN resources' = DOMAIN resources \ {node}
            /\ \A n \in nodes' : resources'[n] * den = resources[n] * den'
            /\ edges' = edges
            /\ healing_actions' = Append(healing_actions,
                   [kind |-> "removed", node |-> node,
                    amount |-> Rat(GetResources(resources, node), den)])
       ]_vars

\* Before any flow, node 2 was removed holding 30 and nodes 1 and 3, all
\* that is left, hold nothing: node 2 had no neighbour to give to.
C18_Witness ==
    /\ pc = "heal"
    /\ stepsDone = 0
    /\ nodes = {1, 3}
    /\ Len(healing_actions) = 1
    /\ healing_actions[1].node = 2
    /\ healing_actions[1].amount = <<30, 1>>
    /\ \A n \in nodes : resources[n] = 0

\* ---- graphs with attributes missing ------------------------------------------------
\* The path 1-2-3 as a caller may hand it over: any node may lack
\* `resources`, any edge may lack `capacity` or `strength`.
BareEdges == {<<1, 2>>, <<2, 3>>}

BareGraphs ==
    {[nodes |-> SmallKeys,
      resources |-> [n \in H |-> 30],
      edges |-> LexSeq(BareEdges),
      capacity |-> [e \in CE |-> 5],
      strength |-> [e \in SE |-> 20]] :
        H \in SUBSET SmallKeys, CE \in SUBSET BareEdges, SE \in SUBSET BareEdges}

InitDefaults ==
    /\ \E g \in BareGraphs :
        /\ nodes = g.nodes
        /\ resources = g.resources
        /\ edges = g.edges
        /\ capacity = g.capacity
        /\ strength = g.strength
    /\ den = 1
    /\ healing = {}
    /\ flow = <<>>
    /\ driver = FALSE
    /\ last_add = <<>>
    /\ pc = "idle"
    /\ time_left = 0
    /\ flow_history = <<>>
    /\ source_nodes = {}
    /\ sink_nodes = {}
    /\ requested = 0
    /\ damaged_nodes = <<>>
    /\ healing_factor = 0
    /\ healing_actions = <<>>
    /\ stepsDone = 0
    /\ start = 0
    /\ target = 0
    /\ paths = <<>>
    /\ trial = 0
    /\ temp_graph = <<>>

SpecDefaults == InitDefaults /\ [][Next]_vars

\* A flow step read with a missing `resources` as 0, a missing `capacity`
\* as capDefault and a missing `strength` as 1.0: the step records, for
\* every edge whose endpoints differ, min(capacity, difference / 10), and
\* each such edge ends a tenth stronger, 2.0 at most.
FlowReadsDefaults(capDefault) ==
    LET rec == Last(flow_history')
        res(n) == IF n \in DOMAIN resources THEN resources[n] ELSE 0
        cap(e) == IF e \in DOMAIN capacity THEN capacity[e] ELSE capDefault
        str(e) == IF e \in DOMAIN strength THEN strength[e] ELSE 10
        moving == SelectSeq(GraphEdges(edges),
                            LAMBDA e : res(e[1]) # res(e[2]))
    IN  /\ Len(rec) = Len(moving)
        /\ \A j \in 1..Len(moving) :
            LET e == moving[j]
            IN  /\ rec[j].edge = e
                /\ rec[j].amount[1] * 10 * den
                       = rec[j].amount[2]
                           * Min(cap(e) * 10 * den, Abs(res(e[1]) - res(e[2])))
                /\ strength'[e] = Min(20, str(e) + 1)
                /\ {e[1], e[2]} \subseteq DOMAIN resources'

\* Healing a present node read with a missing `resources` as 0: it
\* reports that amount and each of its k neighbours gains a k-th of it.
HealReadsDefaults ==
    LET node == Head(damaged_nodes)
        res(n) == IF n \in DOMAIN resources THEN resources[n] ELSE 0
        neighbors == Neighbors(edges, node)
        k == Cardinality(neighbors)
        said == Last(healing_actions').amount
    IN  /\ said[1] * den = said[2] * res(node)
        /\ \A nb \in neighbors :
            /\ nb \in DOMAIN resources'
            /\ resources'[nb] * den * k = (res(nb) * k + res(node)) * den'

\* C19 as stated: missing attributes raise nothing and read as resources
\* 0, capacity 0 and strength 1.0.
C19_DefaultsAsStated ==
    /\ [][FlowStep => FlowReadsDefaults(0)]_vars
    /\ [][(HealNode /\ Head(damaged_nodes) \in nodes) => HealReadsDefaults]_vars

\* C19 as the code has it: missing attributes raise nothing and read as
\* resources 0, capacity 1 and strength 1.0.
C19_Defaults ==
    /\ [][FlowStep => FlowReadsDefaults(1)]_vars
    /\ [][(HealNode /\ Head(damaged_nodes) \in nodes) => HealReadsDefaults]_vars

\* A step has moved 1 over an edge that has no capacity, towards a node
\* that had no resources, and left the edge, which had no strength, at 1.1.
C19_Witness ==
    /\ pc = "flow"
    /\ stepsDone = 1
    /\ healing_actions = <<>>
    /\ \E j \in 1..Len(Last(flow_history)) :
        LET f == Last(flow_history)[j]
        IN  /\ f.edge \notin DOMAIN capacity
            /\ f.amount = <<1, 1>>
            /\ strength[f.edge] = 11
            /\ resources[f.direction[2]] = den

\* ---- what pathfinding returns ------------------------------------------------------
\* p leads from start to target over edges of es.
IsPathOver(p, es) ==
    /\ Len(p) >= 1
    /\ p[1] = start
    /\ p[Len(p)] = target
    /\ \A i \in 1..(Len(p) - 1) : EdgeKey(p[i], p[i + 1]) \in Range(es)

\* C20: every entry of the result is a path from start to target over
\* edges of the caller's graph, no alternative has fewer hops than the
\* primary path, and there are at most 4 entries.  A trial whose copy has
\* start and target disconnected adds no entry and the trials go on.
C20_PathEntries ==
    /\ [](pc \in {"path", "path_done"} =>
            /\ Len(paths) <= 4
            /\ \A k \in 1..Len(paths) :
                /\ IsPathOver(paths[k].path, edges)
                /\ Len(paths[k].path) >= Len(paths[1].path))
    /\ [](pc = "path_done" /\ paths # <<>> => trial = 3)
    /\ [][PathTrial =>
            /\ trial' = trial + 1
            /\ pc' = "path"
            /\ \/ paths' = paths
               \/ /\ Len(paths') = Len(paths) + 1
                  /\ SubSeq(paths', 1, Len(paths)) = paths
                  /\ IsPathOver(Last(paths').path, temp_graph')
            /\ target \notin Reach({start}, temp_graph') => paths' = paths
         ]_vars

\* The first trial cut start from target in its copy: the result still
\* holds the primary path alone and two trials are yet to run.
C20_Witness ==
    /\ pc = "path"
    /\ trial = 1
    /\ Len(paths) = 1
    /\ target \notin Reach({start}, temp_graph)
    /\ target \in Reach({start}, edges)

====
